---- MODULE Spec2Model ----
(***************************************************************************)
(* Bounding-box algebra (scarlet/bbox.py) and the component projection     *)
(* layer (scarlet/component.py).                                           *)
(*                                                                         *)
(* A Box is a record [shape, origin] of two 3-tuples.  An array is a       *)
(* record [shape, data]: shape is a tuple of 2 or 3 extents and data maps  *)
(* every index tuple of that shape to a number.  A slice is a record       *)
(* [start, stop] resolved against an axis length the way Python resolves   *)
(* slice(start, stop).                                                     *)
(***************************************************************************)
EXTENDS Integers, Sequences, FiniteSets, TLC

VARIABLES
    pc,      \* position of the driving script
    boxA,    \* Box algebra: the box being built and operated on
    boxB,    \* Box algebra: the second operand
    last,    \* the last operation applied, with its inputs
    region,  \* array transfer: the box handed to extract_from / insert_into
    image,   \* array transfer: the source array
    target,  \* array transfer: the array insert_into writes into
    sub,     \* array transfer: the buffer extract_from returned
    raised,  \* whether the last call raised
    nodes,   \* components: the model nodes, by name
    out,     \* components: the array the last render returned
    renders  \* components: the number of renders of the combined node so far

boxVars  == <<boxA, boxB>>
xferVars == <<region, image, target, sub>>
nodeVars == <<nodes, out, renders>>
vars == <<pc, last, raised, boxA, boxB, region, image, target, sub, nodes, out, renders>>

----------------------------------------------------------------------------
(* Bounds of the model *)

\* coordinates handed to from_bounds on the x axis range over -1..MaxCoord
MaxCoord == 2
\* coordinates on the y axis range over 0..MaxSide
MaxSide == 1
\* offsets of the in-place add/subtract range over 0..MaxOff per axis
MaxOff == 1

Min2(a, b) == IF a < b THEN a ELSE b
Max2(a, b) == IF a > b THEN a ELSE b

XCoords == (0 - 1)..MaxCoord
SideCoords == 0..MaxSide
\* coordinates on the z (channel) axis
ChanCoords == {0, 1}

----------------------------------------------------------------------------
(* class Box *)

\* Box.__init__: a 2D shape or origin is promoted to 3D with a leading 0
Box(shape, origin) ==
    [shape  |-> IF Len(shape) = 2 THEN <<0>> \o shape ELSE shape,
     origin |-> IF Len(origin) = 2 THEN <<0>> \o origin ELSE origin]

front(b)  == b.origin[1]
bottom(b) == b.origin[2]
left(b)   == b.origin[3]
back(b)   == b.origin[1] + b.shape[1]
top(b)    == b.origin[2] + b.shape[2]
right(b)  == b.origin[3] + b.shape[3]

\* from_bounds without the three swaps
from_bounds_noswap(f, bk, bo, t, l, r) ==
    Box(<<bk - f, t - bo, r - l>>, <<f, bo, l>>)

\* Box.from_bounds: each reversed axis pair is swapped, then shape = hi - lo
from_bounds(f, bk, bo, t, l, r) ==
    LET f1  == IF bk < f THEN bk ELSE f
        bk1 == IF bk < f THEN f ELSE bk
        bo1 == IF t < bo THEN t ELSE bo
        t1  == IF t < bo THEN bo ELSE t
        l1  == IF r < l THEN r ELSE l
        r1  == IF r < l THEN l ELSE r
    IN  Box(<<bk1 - f1, t1 - bo1, r1 - l1>>, <<f1, bo1, l1>>)

\* Box.from_image
from_image(img) == Box(img.shape, <<0, 0, 0>>)

\* Box.contains: the upper bound test is inclusive
contains(b, p) ==
    LET q == IF Len(p) = 2 THEN <<0>> \o p ELSE p
    IN  \A d \in 1..3 : ~(q[d] < b.origin[d] \/ q[d] > b.origin[d] + b.shape[d])

\* a union that keeps the first operand's upper bounds
Box_or_firsthi(a, b) ==
    from_bounds(Min2(front(a), front(b)), back(a),
                Min2(bottom(a), bottom(b)), top(a),
                Min2(left(a), left(b)), right(a))

\* Box.__or__
Box_or(a, b) ==
    from_bounds(Min2(front(a), front(b)), Max2(back(a), back(b)),
                Min2(bottom(a), bottom(b)), Max2(top(a), top(b)),
                Min2(left(a), left(b)), Max2(right(a), right(b)))

\* Box.__and__
Box_and(a, b) ==
    from_bounds(Max2(front(a), front(b)), Min2(back(a), back(b)),
                Max2(bottom(a), bottom(b)), Min2(top(a), top(b)),
                Max2(left(a), left(b)), Min2(right(a), right(b)))

\* Box.__iadd__ / Box.__isub__: only the origin is rebound
Box_iadd(b, off) ==
    [b EXCEPT !.origin = <<b.origin[1] + off[1], b.origin[2] + off[2], b.origin[3] + off[3]>>]

Box_isub(b, off) ==
    [b EXCEPT !.origin = <<b.origin[1] - off[1], b.origin[2] - off[2], b.origin[3] - off[3]>>]

\* Box.__eq__
Box_eq(a, b) == a.shape = b.shape /\ a.origin = b.origin

----------------------------------------------------------------------------
(* numpy arrays and Python slices *)

\* the index tuples (0-based) of an array of the given shape
IndexSet(shape) ==
    IF Len(shape) = 2
    THEN (0..(shape[1] - 1)) \X (0..(shape[2] - 1))
    ELSE (0..(shape[1] - 1)) \X (0..(shape[2] - 1)) \X (0..(shape[3] - 1))

\* np.zeros(shape)
zeros(shape) == [shape |-> shape, data |-> [i \in IndexSet(shape) |-> 0]]

\* Box.from_data: the bounds of the entries above min_value, [min, max + 1) per
\* axis; a 2D input gets the depth bounds 0, 0; no entry above gives all zeros
from_data(X, min_value) ==
    LET sel == {i \in IndexSet(X.shape) : X.data[i] > min_value}
        lo(d) == CHOOSE m \in {i[d] : i \in sel} : \A i \in sel : m <= i[d]
        hi(d) == CHOOSE m \in {i[d] : i \in sel} : \A i \in sel : m >= i[d]
    IN  IF sel # {}
        THEN IF Len(X.shape) = 2
             THEN from_bounds(0, 0, lo(1), hi(1) + 1, lo(2), hi(2) + 1)
             ELSE from_bounds(lo(1), hi(1) + 1, lo(2), hi(2) + 1, lo(3), hi(3) + 1)
        ELSE from_bounds(0, 0, 0, 0, 0, 0)

\* a tuple of n = 2 or 3 entries from a function on 1..n
Tup(f, n) == IF n = 2 THEN <<f[1], f[2]>> ELSE <<f[1], f[2], f[3]>>

\* slice(start, stop)
slice(start, stop) == [start |-> start, stop |-> stop]

\* Python's resolution of a slice bound against an axis of length n: a
\* negative bound counts from the end, and the result is clipped to 0..n
PyIndex(v, n) == IF v < 0 THEN Max2(v + n, 0) ELSE Min2(v, n)
SliceStart(sl, n) == PyIndex(sl.start, n)
SliceLen(sl, n) == Max2(PyIndex(sl.stop, n) - PyIndex(sl.start, n), 0)

\* a[slices]: the sub-array the slices select
getitem(a, slices) ==
    LET n == Len(a.shape)
        shp == Tup([d \in 1..n |-> SliceLen(slices[d], a.shape[d])], n)
    IN  [shape |-> shp,
         data  |-> [i \in IndexSet(shp) |->
                      a.data[Tup([d \in 1..n |-> i[d] + SliceStart(slices[d], a.shape[d])], n)]]]

\* whether numpy broadcasts an array of shape `from` into one of shape `to`
Broadcasts(from, to) ==
    /\ Len(from) = Len(to)
    /\ \A d \in 1..Len(to) : from[d] = to[d] \/ from[d] = 1

\* a[slices] = v: raises when v does not broadcast into the selection
setitem(a, slices, v) ==
    LET n == Len(a.shape)
        st(d) == SliceStart(slices[d], a.shape[d])
        ln(d) == SliceLen(slices[d], a.shape[d])
        shp == Tup([d \in 1..n |-> ln(d)], n)
        inside(i) == \A d \in 1..n : st(d) <= i[d] /\ i[d] < st(d) + ln(d)
        from(i) == Tup([d \in 1..n |-> IF v.shape[d] = 1 THEN 0 ELSE i[d] - st(d)], n)
    IN  IF Broadcasts(v.shape, shp)
        THEN [raised |-> FALSE,
              arr |-> [a EXCEPT !.data = [i \in IndexSet(a.shape) |->
                          IF inside(i) THEN v.data[from(i)] ELSE a.data[i]]]]
        ELSE [raised |-> TRUE, arr |-> a]

\* slices_for without the intersection with the array's own box
slices_for_unclipped(self, shape) ==
    IF Len(shape) = 2
    THEN <<slice(bottom(self), top(self)), slice(left(self), right(self))>>
    ELSE <<slice(front(self), back(self)), slice(bottom(self), top(self)),
           slice(left(self), right(self))>>

\* Box.slices_for: the bounds of self & Box(shape), as slices; two for a 2D shape
slices_for(self, shape) ==
    LET im_box == Box(shape, <<0, 0, 0>>)
        overlap == Box_and(self, im_box)
        zslice == slice(front(overlap), back(overlap))
        yslice == slice(bottom(overlap), top(overlap))
        xslice == slice(left(overlap), right(overlap))
    IN  IF Len(shape) = 2 THEN <<yslice, xslice>> ELSE <<zslice, yslice, xslice>>

\* Box.extract_from with the buffer `dst` as `sub`
extract_into(self, img, dst) ==
    LET imbox == Box_isub(from_image(img), self.origin)
        subbox == from_image(dst)
        overlap == Box_and(imbox, subbox)
    IN  setitem(dst, slices_for(overlap, dst.shape),
                getitem(img, slices_for(self, img.shape)))

\* Box.extract_from(image) with sub=None: a fresh zero buffer of self.shape,
\* of self.shape[1:] for a 2D image
extract_from(self, img) ==
    extract_into(self, img,
                 IF Len(img.shape) = 3 THEN zeros(self.shape)
                 ELSE zeros(<<self.shape[2], self.shape[3]>>))

\* an insert that reads the sub-image at the image's own slices
insert_into_unshifted(self, img, s) ==
    setitem(img, slices_for(self, img.shape), getitem(s, slices_for(self, s.shape)))

\* Box.insert_into
insert_into(self, img, s) ==
    LET imbox == Box_isub(from_image(img), self.origin)
        subbox == from_image(s)
        overlap == Box_and(imbox, subbox)
    IN  setitem(img, slices_for(self, img.shape),
                getitem(s, slices_for(overlap, s.shape)))

----------------------------------------------------------------------------
(* Box algebra: a script that builds a box, shifts it, builds a second   *)
(* box, combines the two and goes on with the result.                    *)

Idle == [op |-> "none"]

\* the arrays handed to from_data: 0/1 images of 2x2 and 1x2x2 entries
DataArrays ==
    {[shape |-> <<2, 2>>, data |-> f] : f \in [IndexSet(<<2, 2>>) -> {0, 1}]}
    \cup {[shape |-> <<1, 2, 2>>, data |-> f] : f \in [IndexSet(<<1, 2, 2>>) -> {0, 1}]}

Offsets == (0..MaxOff) \X (0..MaxOff) \X (0..MaxOff)

\* the boxes of the model stay inside the coordinate ranges
InRange(b) ==
    /\ front(b) \in ChanCoords /\ back(b) \in ChanCoords
    /\ bottom(b) \in SideCoords /\ top(b) \in SideCoords
    /\ left(b) \in XCoords /\ right(b) \in XCoords

NoArray == [shape |-> <<0, 0>>, data |-> <<>>]
NoBox == Box(<<0, 0, 0>>, <<0, 0, 0>>)
XferIdle ==
    /\ region = NoBox
    /\ image = NoArray
    /\ target = NoArray
    /\ sub = NoArray

NodesIdle ==
    /\ nodes = <<>>
    /\ out = NoArray
    /\ renders = 0

InitBox ==
    /\ pc = "A"
    /\ raised = FALSE
    /\ XferIdle
    /\ NodesIdle
    /\ boxA = Box(<<0, 0, 0>>, <<0, 0, 0>>)
    /\ boxB = Box(<<0, 0, 0>>, <<0, 0, 0>>)
    /\ last = Idle

\* a = Box.from_bounds(front, back, bottom, top, left, right)
FromBounds(f, bk, bo, t, l, r) ==
    /\ pc = "A"
    /\ boxA' = from_bounds(f, bk, bo, t, l, r)
    /\ last' = [op |-> "from_bounds", args |-> <<f, bk, bo, t, l, r>>]
    /\ pc' = "A2"
    /\ UNCHANGED <<boxB, raised, xferVars, nodeVars>>

\* a = Box.from_data(X)
FromData(X) ==
    /\ pc = "A"
    /\ boxA' = from_data(X, 0)
    /\ last' = [op |-> "from_data", X |-> X]
    /\ pc' = "A2"
    /\ UNCHANGED <<boxB, raised, xferVars, nodeVars>>

\* a += offset
IAdd(off) ==
    /\ pc = "A2"
    /\ InRange(Box_iadd(boxA, off))
    /\ boxA' = Box_iadd(boxA, off)
    /\ last' = [op |-> "iadd", a |-> boxA, off |-> off]
    /\ UNCHANGED <<pc, boxB, raised, xferVars, nodeVars>>

\* a -= offset
ISub(off) ==
    /\ pc = "A2"
    /\ InRange(Box_isub(boxA, off))
    /\ boxA' = Box_isub(boxA, off)
    /\ last' = [op |-> "isub", a |-> boxA, off |-> off]
    /\ UNCHANGED <<pc, boxB, raised, xferVars, nodeVars>>

\* the first box is complete
Settle ==
    /\ pc = "A2"
    /\ pc' = "B"
    /\ last' = Idle
    /\ UNCHANGED <<boxA, boxB, raised, xferVars, nodeVars>>

\* b = Box.from_bounds(...)
FromBoundsB(f, bk, bo, t, l, r) ==
    /\ pc = "B"
    /\ boxB' = from_bounds(f, bk, bo, t, l, r)
    /\ last' = Idle
    /\ pc' = "op"
    /\ UNCHANGED <<boxA, raised, xferVars, nodeVars>>

\* a = a | b
Union ==
    /\ pc = "op"
    /\ boxA' = Box_or(boxA, boxB)
    /\ last' = [op |-> "or", a |-> boxA, b |-> boxB]
    /\ pc' = "res"
    /\ UNCHANGED <<boxB, raised, xferVars, nodeVars>>

\* a = a & b
Intersect ==
    /\ pc = "op"
    /\ boxA' = Box_and(boxA, boxB)
    /\ last' = [op |-> "and", a |-> boxA, b |-> boxB]
    /\ pc' = "res"
    /\ UNCHANGED <<boxB, raised, xferVars, nodeVars>>

\* the script goes on with the result
Again ==
    /\ pc = "res"
    /\ pc' = "A2"
    /\ last' = Idle
    /\ boxB' = Box(<<0, 0, 0>>, <<0, 0, 0>>)
    /\ UNCHANGED <<boxA, raised, xferVars, nodeVars>>

NextBox ==
    \/ \E f, bk \in ChanCoords : \E bo, t \in SideCoords : \E l, r \in XCoords : FromBounds(f, bk, bo, t, l, r)
    \/ \E X \in DataArrays : FromData(X)
    \/ \E off \in Offsets : IAdd(off)
    \/ \E off \in Offsets : ISub(off)
    \/ Settle
    \/ \E f, bk \in ChanCoords : \E bo, t \in SideCoords : \E l, r \in XCoords : FromBoundsB(f, bk, bo, t, l, r)
    \/ Union
    \/ Intersect
    \/ Again

SpecBox == InitBox /\ [][NextBox]_vars

----------------------------------------------------------------------------
(* Claims on the Box algebra *)

lo_(b, d) == b.origin[d]
hi_(b, d) == b.origin[d] + b.shape[d]
\* the indices of box b on axis d: the half-open range [lo, hi)
Extent(b, d) == lo_(b, d)..(hi_(b, d) - 1)
NonNegative(b) == \A d \in 1..3 : b.shape[d] >= 0

AfterAnd == pc = "res" /\ last.op = "and"
AfterOr  == pc = "res" /\ last.op = "or"

\* C1: a & b is, on every axis, [max lo, min hi) when max lo <= min hi and
\* of extent 0 otherwise; it is empty iff a and b share no index on some
\* axis; and it covers no index that lies in neither a nor b.
C1_IntersectClampsToEmpty ==
    AfterAnd =>
        LET a == last.a
            b == last.b
        IN  /\ \A d \in 1..3 :
                 LET lo == Max2(lo_(a, d), lo_(b, d))
                     hi == Min2(hi_(a, d), hi_(b, d))
                 IN  IF lo <= hi
                     THEN lo_(boxA, d) = lo /\ hi_(boxA, d) = hi
                     ELSE boxA.shape[d] = 0
            /\ (\E d \in 1..3 : boxA.shape[d] = 0)
                 <=> (\E d \in 1..3 : Extent(a, d) \cap Extent(b, d) = {})
            /\ \A d \in 1..3 : Extent(boxA, d) \subseteq Extent(a, d) \cup Extent(b, d)

\* C2: a | b has, on every axis, the lower bound min(a.lo, b.lo) and the
\* upper bound max(a.hi, b.hi), and contains every corner of a and of b;
\* shape (1,4,4) origin (0,2,2) | shape (1,4,4) origin (0,0,0) is
\* shape (1,6,6) origin (0,0,0).
Corners(b) ==
    {<<z, y, x>> : z \in {front(b), back(b)}, y \in {bottom(b), top(b)},
                   x \in {left(b), right(b)}}

C2_UnionCoversBoth ==
    /\ AfterOr =>
        LET a == last.a
            b == last.b
        IN  /\ \A d \in 1..3 :
                 /\ lo_(boxA, d) = Min2(lo_(a, d), lo_(b, d))
                 /\ hi_(boxA, d) = Max2(hi_(a, d), hi_(b, d))
            /\ \A c \in Corners(a) \cup Corners(b) : contains(boxA, c)
    /\ Box_or(Box(<<1, 4, 4>>, <<0, 2, 2>>), Box(<<1, 4, 4>>, <<0, 0, 0>>))
         = Box(<<1, 6, 6>>, <<0, 0, 0>>)

\* the union of two non-empty boxes that lie apart on the x axis
C2_Witness ==
    /\ AfterOr
    /\ \A d \in 1..3 : last.a.shape[d] > 0 /\ last.b.shape[d] > 0
    /\ right(last.b) < left(last.a)
    /\ boxA # last.a /\ boxA # last.b

Abs(n) == IF n < 0 THEN 0 - n ELSE n

\* C10: from_bounds yields, per axis pair (a, b), origin min(a, b) and extent
\* |b - a|, so swapping the bounds of an axis gives the same box; every box
\* built by from_bounds, from_data, union, intersect and in-place offsets has
\* non-negative shape; an in-place offset changes the origin only.
C10_WellFormed ==
    /\ last.op = "from_bounds" =>
        LET f  == last.args[1]
            bk == last.args[2]
            bo == last.args[3]
            t  == last.args[4]
            l  == last.args[5]
            r  == last.args[6]
        IN  /\ boxA.origin = <<Min2(f, bk), Min2(bo, t), Min2(l, r)>>
            /\ boxA.shape = <<Abs(bk - f), Abs(t - bo), Abs(r - l)>>
            /\ from_bounds(bk, f, bo, t, l, r) = boxA
            /\ from_bounds(f, bk, t, bo, l, r) = boxA
            /\ from_bounds(f, bk, bo, t, r, l) = boxA
    /\ NonNegative(boxA) /\ NonNegative(boxB)
    /\ last.op = "iadd" =>
        /\ boxA.shape = last.a.shape
        /\ \A d \in 1..3 : boxA.origin[d] = last.a.origin[d] + last.off[d]
    /\ last.op = "isub" =>
        /\ boxA.shape = last.a.shape
        /\ \A d \in 1..3 : boxA.origin[d] = last.a.origin[d] - last.off[d]

\* from_bounds was handed reversed bounds on every axis
C10_Witness ==
    /\ last.op = "from_bounds"
    /\ last.args[2] < last.args[1]
    /\ last.args[4] < last.args[3]
    /\ last.args[6] < last.args[5]

----------------------------------------------------------------------------
(* Array transfer: extract_from a source, then insert_into a target *)

\* extents of the arrays on the x axis range over 0..MaxLen, origins of the
\* region over -MaxLen..MaxLen, extents of the region over 0..MaxLen + 1
MaxLen == 2

\* every entry of a source array is a different non-zero number
Code(i) == IF Len(i) = 2 THEN 10 * i[1] + i[2] + 1
           ELSE 100 * i[1] + 10 * i[2] + i[3] + 1
SourceArray(shape) == [shape |-> shape, data |-> [i \in IndexSet(shape) |-> Code(i)]]
TargetArray(shape) == [shape |-> shape, data |-> [i \in IndexSet(shape) |-> 0 - Code(i)]]

ImageShapes ==
    {<<h, w>> : h \in 1..2, w \in 0..MaxLen}
    \cup {<<c, h, w>> : c \in 1..2, h \in 1..2, w \in 0..MaxLen}

Regions ==
    {Box(<<sc, sh, sw>>, <<oc, oh, ow>>) :
        sc \in 0..2, sh \in 0..2, sw \in 0..(MaxLen + 1),
        oc \in (0 - 1)..1, oh \in (0 - 1)..1, ow \in (0 - MaxLen)..MaxLen}

InitXfer ==
    /\ pc = "start"
    /\ last = Idle
    /\ raised = FALSE
    /\ boxA = NoBox /\ boxB = NoBox
    /\ region \in Regions
    /\ \E shape \in ImageShapes :
         /\ image = SourceArray(shape)
         /\ target = TargetArray(shape)
    /\ sub = NoArray
    /\ NodesIdle

\* sub = region.extract_from(image)
Extract ==
    /\ pc = "start"
    /\ LET r == extract_from(region, image)
       IN  /\ sub' = r.arr
           /\ raised' = r.raised
           /\ pc' = IF r.raised THEN "failed" ELSE "extracted"
    /\ last' = [op |-> "extract_from"]
    /\ UNCHANGED <<region, image, target, boxVars, nodeVars>>

\* region.insert_into(target, sub): target is written in place
Insert ==
    /\ pc = "extracted"
    /\ LET r == insert_into(region, target, sub)
       IN  /\ target' = r.arr
           /\ raised' = r.raised
           /\ pc' = IF r.raised THEN "failed" ELSE "inserted"
    /\ last' = [op |-> "insert_into", before |-> target]
    /\ UNCHANGED <<region, image, sub, boxVars, nodeVars>>

NextXfer == Extract \/ Insert

SpecXfer == InitXfer /\ [][NextXfer]_vars

----------------------------------------------------------------------------
(* Claims on the array transfer *)

\* the origin of the region on the axes of an array of n dimensions
AxisOrigin(r, n) == IF n = 2 THEN <<r.origin[2], r.origin[3]>> ELSE r.origin
AxisShape(r, n)  == IF n = 2 THEN <<r.shape[2], r.shape[3]>> ELSE r.shape
\* index q of the buffer, as an index of the source array
Shifted(q, r, n) == Tup([d \in 1..n |-> q[d] + AxisOrigin(r, n)[d]], n)
\* whether index p of the source array lies in the region's footprint
InFootprint(p, r, n) ==
    \A d \in 1..n : AxisOrigin(r, n)[d] <= p[d]
                    /\ p[d] < AxisOrigin(r, n)[d] + AxisShape(r, n)[d]

Extracted == pc \in {"extracted", "inserted"}

\* C3: extract_from(R, S) without a destination never raises and returns a
\* buffer D of shape R.shape (R.shape[1:] for a 2D source) with
\* D[q] = S[q + R.origin] where q + R.origin lies in S and D[q] = 0 elsewhere.
C3_ExtractZeroFills ==
    /\ pc # "failed"
    /\ Extracted =>
        LET n == Len(image.shape)
        IN  /\ ~raised
            /\ sub.shape = AxisShape(region, n)
            /\ \A q \in IndexSet(sub.shape) :
                 sub.data[q] = IF Shifted(q, region, n) \in IndexSet(image.shape)
                               THEN image.data[Shifted(q, region, n)]
                               ELSE 0

\* a 3D extraction that copies some entries and zero-fills others, from a
\* region that starts at a negative x coordinate
C3_Witness ==
    /\ pc = "extracted"
    /\ Len(image.shape) = 3
    /\ left(region) < 0
    /\ \E q \in IndexSet(sub.shape) : sub.data[q] # 0
    /\ \E q \in IndexSet(sub.shape) : sub.data[q] = 0

\* a 2D extraction of a region that lies wholly outside the source
C3_WitnessZeroOverlap ==
    /\ pc = "extracted"
    /\ Len(image.shape) = 2
    /\ IndexSet(sub.shape) # {}
    /\ IndexSet(image.shape) # {}
    /\ \A q \in IndexSet(sub.shape) : sub.data[q] = 0

\* C4: after insert_into(R, T, extract_from(R, S)) every position of T inside
\* R's footprint holds S there, every other position holds what T held
\* before the call, and nothing raises.
C4_RoundTrip ==
    /\ pc # "failed"
    /\ pc = "inserted" =>
        LET n == Len(image.shape)
        IN  /\ ~raised
            /\ target.shape = image.shape
            /\ \A p \in IndexSet(target.shape) :
                 target.data[p] = IF InFootprint(p, region, n)
                                  THEN image.data[p]
                                  ELSE last.before.data[p]

\* a round trip that overwrites some positions of the target and keeps others
C4_Witness ==
    /\ pc = "inserted"
    /\ \E p \in IndexSet(target.shape) : target.data[p] = image.data[p]
    /\ \E p \in IndexSet(target.shape) : target.data[p] # image.data[p]
    /\ left(region) < 0

----------------------------------------------------------------------------
(* Frames, parameters and components (scarlet/component.py) *)

\* the frames of the model: a frame is known by its name, and exposes a
\* shape and the box of its full extent
FrameIds == {"F1", "F2"}
NoFrame == "None"
FrameShape(f) == IF f = "F1" THEN <<1, 2, 2>> ELSE <<2, 1, 3>>
FrameBbox(f) == Box(FrameShape(f), <<0, 0, 0>>)

\* bbox=None
NoneBox == [shape |-> <<>>, origin |-> <<>>]

\* overlapped_slices(bbox1, bbox2): the overlap of the two boxes as slices of
\* an array spanning bbox1 and as slices of an array spanning bbox2
overlapped_slices(bbox1, bbox2) ==
    LET overlap == Box_and(bbox1, bbox2)
        rel(o) == Box_isub(overlap, o)
        slices(b) == <<slice(front(b), back(b)), slice(bottom(b), top(b)),
                       slice(left(b), right(b))>>
    IN  <<slices(rel(bbox1.origin)), slices(rel(bbox2.origin))>>

\* a bbox setter that keeps the cached slices
bbox_setter_stale(node, b) ==
    [node EXCEPT !.bbox = IF b = NoneBox THEN FrameBbox(node.frame) ELSE b]

\* Component.frame setter: the cached slices are recomputed in the assignment
frame_setter(node, f) ==
    LET sl == overlapped_slices(FrameBbox(f), node.bbox)
    IN  [node EXCEPT !.frame = f, !.fslices = sl[1], !.mslices = sl[2]]

\* Component.bbox setter: None selects the frame's box; the cached slices
\* are recomputed in the assignment
bbox_setter(node, b) ==
    LET b1 == IF b = NoneBox THEN FrameBbox(node.frame) ELSE b
        sl == overlapped_slices(FrameBbox(node.frame), b1)
    IN  [node EXCEPT !.bbox = b1, !.fslices = sl[1], !.mslices = sl[2]]

\* Component.__init__: _bbox is stored directly, then the frame setter runs
Component_init(kind, f, bbox, params, children, operation) ==
    frame_setter([kind |-> kind,
                  frame |-> f,
                  bbox |-> IF bbox = NoneBox THEN FrameBbox(f) ELSE bbox,
                  fslices |-> <<>>,
                  mslices |-> <<>>,
                  params |-> params,
                  children |-> children,
                  operation |-> operation], f)

\* a projection that always uses the cached slices
model_to_frame_cached(node, f, model) ==
    setitem(zeros(FrameShape(node.frame)), node.fslices, getitem(model, node.mslices))

\* Component.model_to_frame with a model given: a zero array of the frame's
\* shape, with the model's overlapping part written into it
model_to_frame(node, f, model) ==
    LET own == f = NoFrame \/ f = node.frame
        fr == IF own THEN node.frame ELSE f
        sl == IF own THEN <<node.fslices, node.mslices>>
              ELSE overlapped_slices(FrameBbox(f), node.bbox)
    IN  setitem(zeros(FrameShape(fr)), sl[1], getitem(model, sl[2]))

\* spectrum[:, None, None] * morphology[None, :, :]
outer(spectrum, morphology) ==
    LET shp == <<Len(spectrum), morphology.shape[1], morphology.shape[2]>>
    IN  [shape |-> shp,
         data |-> [i \in IndexSet(shp) |->
                     spectrum[i[1] + 1] * morphology.data[<<i[2], i[3]>>]]]

\* get_model(frame=None) of a leaf: a cube component hands out its parameter
\* array itself, a factorized component a new array
leaf_model(node) ==
    IF node.kind = "cube" THEN node.params[1]
    ELSE outer(node.params[1], node.params[2])

\* a += b and a *= b in numpy: b must broadcast into a's shape
inplace(operation, a, b) ==
    IF Broadcasts(b.shape, a.shape)
    THEN [raised |-> FALSE,
          arr |-> [a EXCEPT !.data = [i \in IndexSet(a.shape) |->
                      LET j == <<IF b.shape[1] = 1 THEN 0 ELSE i[1],
                                 IF b.shape[2] = 1 THEN 0 ELSE i[2],
                                 IF b.shape[3] = 1 THEN 0 ELSE i[3]>>
                      IN  IF operation = "add" THEN a.data[i] + b.data[j]
                          ELSE a.data[i] * b.data[j]]]]
    ELSE [raised |-> TRUE, arr |-> a]

\* the loop over models[1:] of CombinedComponent.get_model, from child k on:
\* acc is models[0], updated in place; a child that is the first child
\* again, when that is a cube component, hands out the same array
RECURSIVE fold(_, _, _, _)
fold(ns, node, acc, k) ==
    IF k > Len(node.children) THEN [raised |-> FALSE, arr |-> acc]
    ELSE LET c == node.children[k]
             same == c = node.children[1] /\ ns[c].kind = "cube"
             m == IF same THEN acc ELSE leaf_model(ns[c])
             r == inplace(node.operation, acc, m)
         IN  IF r.raised THEN r ELSE fold(ns, node, r.arr, k + 1)

\* CombinedComponent.get_model(frame=None): models[0] folded with models[1:]
combined_model(ns, node) ==
    fold(ns, node, leaf_model(ns[node.children[1]]), 2)

\* the assertions of CombinedComponent.__init__ without the comparison of the boxes
CombinedOk_nobox(ns, components, operation, check_boxes) ==
    /\ Len(components) > 0
    /\ \A k \in 1..Len(components) :
         ns[components[k]].frame = ns[components[1]].frame
    /\ operation \in {"add", "multiply"}

\* whether CombinedComponent.__init__ passes its assertions
CombinedOk(ns, components, operation, check_boxes) ==
    /\ Len(components) > 0
    /\ \A k \in 1..Len(components) :
         /\ ns[components[k]].frame = ns[components[1]].frame
         /\ check_boxes => Box_eq(ns[components[k]].bbox, ns[components[1]].bbox)
    /\ operation \in {"add", "multiply"}

\* CombinedComponent.__init__ once the assertions passed
Combined_init(ns, components, operation) ==
    Component_init("combined", ns[components[1]].frame, ns[components[1]].bbox,
                   <<>>, components, operation)

----------------------------------------------------------------------------
(* A single component: construction, assignments of bbox and frame,      *)
(* parameter updates and renders.                                        *)

Kinds == {"cube", "factorized"}

\* a spectrum with one entry per channel
Spectrum(shape) ==
    IF shape[1] = 0 THEN <<>>
    ELSE IF shape[1] = 1 THEN <<2>>
    ELSE IF shape[1] = 2 THEN <<2, 3>>
    ELSE <<2, 3, 5>>

\* the parameters of a component whose model has the given shape: a cube,
\* or a spectrum and a morphology; every entry is a different non-zero number
Params(kind, shape) ==
    IF kind = "cube" THEN <<SourceArray(shape)>>
    ELSE <<Spectrum(shape), SourceArray(<<shape[2], shape[3]>>)>>

\* the boxes a single component is given
LeafBoxes ==
    {Box(<<sc, sh, sw>>, <<oc, oh, ow>>) :
        sc \in 1..2, sh \in 1..2, sw \in 0..MaxLen,
        oc \in (0 - 1)..0, oh \in (0 - 1)..1, ow \in (0 - MaxLen)..MaxLen}

\* a leaf component as its constructor leaves it, with parameters that fit its box
NewLeaf(kind, f, b) ==
    LET b1 == IF b = NoneBox THEN FrameBbox(f) ELSE b
    IN  Component_init(kind, f, b, Params(kind, b1.shape), <<>>, "none")

NoOther ==
    /\ boxA = NoBox /\ boxB = NoBox
    /\ XferIdle

InitLeaf ==
    /\ pc = "ready"
    /\ last = Idle
    /\ raised = FALSE
    /\ NoOther
    /\ \E kind \in Kinds, f \in FrameIds, b \in LeafBoxes \cup {NoneBox} :
         nodes = [n \in {"L1"} |-> NewLeaf(kind, f, b)]
    /\ out = NoArray
    /\ renders = 0

\* node.bbox = b
SetBbox(n, b) ==
    /\ pc = "ready"
    /\ nodes' = [nodes EXCEPT ![n] = bbox_setter(nodes[n], b)]
    /\ last' = Idle
    /\ pc' = "assigned"
    /\ UNCHANGED <<raised, out, renders, boxVars, xferVars>>

\* node.frame = f
SetFrame(n, f) ==
    /\ pc \in {"ready", "assigned"}
    /\ nodes' = [nodes EXCEPT ![n] = frame_setter(nodes[n], f)]
    /\ last' = Idle
    /\ UNCHANGED <<pc, raised, out, renders, boxVars, xferVars>>

\* the owner of the parameters replaces them by ones that fit the box
UpdateParameters(n) ==
    /\ pc = "assigned"
    /\ nodes' = [nodes EXCEPT ![n].params = Params(nodes[n].kind, nodes[n].bbox.shape)]
    /\ last' = Idle
    /\ pc' = "ready"
    /\ UNCHANGED <<raised, out, renders, boxVars, xferVars>>

\* model_to_frame asks for a model of the shape of the node's box
Fits(node) == leaf_model(node).shape = node.bbox.shape

\* get_model(frame=f) of a leaf: the local model, projected when f is given
leaf_get_model(node, f) ==
    IF f = NoFrame THEN [raised |-> FALSE, arr |-> leaf_model(node)]
    ELSE model_to_frame(node, f, leaf_model(node))

\* out = node.get_model(frame=f)
GetModel(n, f) ==
    /\ pc \in {"ready", "assigned"}
    /\ Fits(nodes[n])
    /\ LET r == leaf_get_model(nodes[n], f)
       IN  /\ out' = IF r.raised THEN NoArray ELSE r.arr
           /\ raised' = r.raised
    /\ last' = [op |-> "get_model", node |-> n, frame |-> f, before |-> nodes]
    /\ pc' = "done"
    /\ UNCHANGED <<nodes, renders, boxVars, xferVars>>

\* out = node.model_to_frame(frame=f), the model being node.get_model()
ModelToFrame(n, f) ==
    /\ pc \in {"ready", "assigned"}
    /\ Fits(nodes[n])
    /\ LET r == model_to_frame(nodes[n], f, leaf_model(nodes[n]))
       IN  /\ out' = IF r.raised THEN NoArray ELSE r.arr
           /\ raised' = r.raised
    /\ last' = [op |-> "model_to_frame", node |-> n, frame |-> f, before |-> nodes]
    /\ pc' = "done"
    /\ UNCHANGED <<nodes, renders, boxVars, xferVars>>

NextLeaf ==
    \/ \E b \in LeafBoxes \cup {NoneBox} : SetBbox("L1", b)
    \/ \E f \in FrameIds : SetFrame("L1", f)
    \/ UpdateParameters("L1")
    \/ \E f \in FrameIds \cup {NoFrame} : GetModel("L1", f)
    \/ \E f \in FrameIds \cup {NoFrame} : ModelToFrame("L1", f)

SpecLeaf == InitLeaf /\ [][NextLeaf]_vars

----------------------------------------------------------------------------
(* Claims on a single component *)

Projected ==
    \/ last.op = "model_to_frame"
    \/ last.op = "get_model" /\ last.frame # NoFrame

\* C5: a render into a target frame has the target frame's shape; every
\* position inside both the node's bbox and the frame holds the local render
\* at p - bbox.origin, every other position holds 0; for the node's own frame
\* and for another one, and for a bbox that overlaps the frame partly or not
\* at all.
C5_ProjectionZeroOutside ==
    Projected =>
        LET node == nodes[last.node]
            fr == IF last.frame = NoFrame THEN node.frame ELSE last.frame
            local == leaf_model(node)
        IN  /\ ~raised
            /\ out.shape = FrameShape(fr)
            /\ \A p \in IndexSet(out.shape) :
                 out.data[p] =
                    IF InFootprint(p, node.bbox, 3)
                    THEN local.data[<<p[1] - node.bbox.origin[1],
                                      p[2] - node.bbox.origin[2],
                                      p[3] - node.bbox.origin[3]>>]
                    ELSE 0

\* a render into a frame other than the node's own, of a bbox that starts
\* left of the frame and covers part of it
C5_Witness ==
    /\ last.op = "get_model"
    /\ last.frame \in FrameIds
    /\ last.frame # nodes[last.node].frame
    /\ left(nodes[last.node].bbox) < 0
    /\ \E p \in IndexSet(out.shape) : out.data[p] # 0
    /\ \E p \in IndexSet(out.shape) : out.data[p] = 0

\* C6: after construction and after every assignment of bbox (None selects
\* the frame's bbox) or frame, the cached pair (_model_frame_slices,
\* _model_slices) is the overlap pair of the node's current frame.bbox and bbox.
C6_CacheConsistent ==
    \A n \in DOMAIN nodes :
        <<nodes[n].fslices, nodes[n].mslices>>
            = overlapped_slices(FrameBbox(nodes[n].frame), nodes[n].bbox)

\* a bbox that sticks out of the frame was assigned, and then the other frame
C6_Witness ==
    /\ pc = "assigned"
    /\ nodes["L1"].frame = "F2"
    /\ left(nodes["L1"].bbox) < 0
    /\ nodes["L1"].bbox.shape # leaf_model(nodes["L1"]).shape
    /\ nodes["L1"].fslices # nodes["L1"].mslices

----------------------------------------------------------------------------
(* Combined components: two leaves, the construction of a combined node  *)
(* over a list of them, and renders.                                     *)

\* a combined node is given at most MaxChildren components
MaxChildren == 3
\* the combined node is rendered at most MaxRenders times
MaxRenders == 2

\* a product is taken only of models whose entries are at most MaxValue, so
\* that every product the fold computes stays an integer TLC can hold
MaxValue == 13

Leaves == {"L1", "L2"}

\* the boxes of the leaves: two of the same shape at different places, and
\* one of another shape
CombBoxes ==
    {Box(<<1, 2, 2>>, <<0, 0, 0>>),
     Box(<<1, 2, 2>>, <<0, 1, 0 - 1>>),
     Box(<<1, 2, 3>>, <<0, 0, 1>>)}

Operations == {"add", "multiply", "subtract"}

ComponentLists == UNION {[1..n -> Leaves] : n \in 0..MaxChildren}

InitComb ==
    /\ pc = "setup"
    /\ last = Idle
    /\ raised = FALSE
    /\ NoOther
    /\ \E k1, k2 \in Kinds, f1, f2 \in FrameIds, b1, b2 \in CombBoxes :
         nodes = [n \in Leaves |-> IF n = "L1" THEN NewLeaf(k1, f1, b1)
                                   ELSE NewLeaf(k2, f2, b2)]
    /\ out = NoArray
    /\ renders = 0

\* K = CombinedComponent(components, operation, check_boxes)
Construct(components, operation, check_boxes) ==
    /\ pc = "setup"
    /\ IF CombinedOk(nodes, components, operation, check_boxes)
       THEN /\ nodes' = [n \in Leaves \cup {"K"} |->
                           IF n = "K" THEN Combined_init(nodes, components, operation)
                           ELSE nodes[n]]
            /\ raised' = FALSE
            /\ pc' = "built"
       ELSE /\ nodes' = nodes
            /\ raised' = TRUE
            /\ pc' = "rejected"
    /\ last' = [op |-> "construct", components |-> components,
                operation |-> operation, check_boxes |-> check_boxes]
    /\ UNCHANGED <<out, renders, boxVars, xferVars>>

\* the nodes after CombinedComponent.get_model: the fold ran in place on the
\* array the first child handed out
AfterFold(ns, node, arr) ==
    IF ns[node.children[1]].kind = "cube"
    THEN [ns EXCEPT ![node.children[1]].params = <<arr>>]
    ELSE ns

\* out = K.get_model(frame=f)
GetModelCombined(f) ==
    /\ pc = "built"
    /\ renders < MaxRenders
    /\ nodes["K"].operation = "multiply" =>
         \A k \in 1..Len(nodes["K"].children) :
            LET m == leaf_model(nodes[nodes["K"].children[k]])
            IN  \A i \in IndexSet(m.shape) : m.data[i] <= MaxValue
    /\ LET node == nodes["K"]
           m == combined_model(nodes, node)
           r == IF m.raised \/ f = NoFrame THEN m ELSE model_to_frame(node, f, m.arr)
       IN  /\ nodes' = AfterFold(nodes, node, m.arr)
           /\ out' = IF r.raised THEN NoArray ELSE r.arr
           /\ raised' = r.raised
    /\ last' = [op |-> "get_model", node |-> "K", frame |-> f, before |-> nodes,
                again |-> last.op = "get_model" /\ last.node = "K" /\ last.frame = f,
                previous |-> out]
    /\ renders' = renders + 1
    /\ UNCHANGED <<pc, boxVars, xferVars>>

\* out = leaf.get_model(frame=f)
GetModelLeaf(n, f) ==
    /\ pc = "setup"
    /\ LET r == leaf_get_model(nodes[n], f)
       IN  /\ out' = IF r.raised THEN NoArray ELSE r.arr
           /\ raised' = r.raised
    /\ last' = [op |-> "get_model", node |-> n, frame |-> f, before |-> nodes,
                again |-> FALSE, previous |-> out]
    /\ pc' = "done"
    /\ UNCHANGED <<nodes, renders, boxVars, xferVars>>

NextComb ==
    \/ \E cs \in ComponentLists, o \in Operations, cb \in BOOLEAN : Construct(cs, o, cb)
    \/ \E f \in FrameIds \cup {NoFrame} : GetModelCombined(f)
    \/ \E n \in Leaves, f \in FrameIds \cup {NoFrame} : GetModelLeaf(n, f)

SpecComb == InitComb /\ [][NextComb]_vars

----------------------------------------------------------------------------
(* Claims on combined components *)

RenderedK == last.op = "get_model" /\ last.node = "K"

\* the arguments that CombinedComponent must refuse
Refused(ns, components, operation, check_boxes) ==
    \/ components = <<>>
    \/ \E k \in 1..Len(components) : ns[components[k]].frame # ns[components[1]].frame
    \/ check_boxes /\ \E k \in 1..Len(components) :
                         ns[components[k]].bbox # ns[components[1]].bbox
    \/ operation \notin {"add", "multiply"}

ConstructionFailsFast ==
    last.op = "construct" =>
        /\ raised <=> Refused(nodes, last.components, last.operation, last.check_boxes)
        /\ raised => "K" \notin DOMAIN nodes
        /\ ~raised => "K" \in DOMAIN nodes /\ nodes["K"].children = last.components

\* the children of K, as they were when the render started
ChildBefore(k) == last.before[last.before["K"].children[k]]
NumChildren == Len(last.before["K"].children)
SameBoxes == \A k \in 1..NumChildren : ChildBefore(k).bbox = ChildBefore(1).bbox

\* C7 as stated: the four kinds of bad arguments fail at construction and
\* yield no node, and every combined node that was constructed, also with
\* check_boxes disabled, renders without raising.
C7_ConstructedNodesRender ==
    /\ ConstructionFailsFast
    /\ RenderedK => ~raised

\* C7 as amended: the four kinds of bad arguments fail at construction and
\* yield no node; a render of a constructed node raises exactly when the
\* local render of some child does not broadcast into that of the first
\* child, which cannot happen when all children have the first child's bbox.
C7_AlignedNodesRender ==
    /\ ConstructionFailsFast
    /\ RenderedK =>
        /\ raised <=> \E k \in 2..NumChildren :
                         ~Broadcasts(leaf_model(ChildBefore(k)).shape,
                                     leaf_model(ChildBefore(1)).shape)
        /\ SameBoxes => ~raised

\* a node of two different children, built with check_boxes, was rendered
\* into a frame, and construction with the same boxes unequal is refused
C7_Witness ==
    /\ RenderedK
    /\ ~raised
    /\ last.frame # NoFrame
    /\ NumChildren >= 2
    /\ last.before["K"].children[1] # last.before["K"].children[2]
    /\ SameBoxes

\* the sum or product, entry by entry, of the local renders the children
\* had when the render started
RECURSIVE FoldAt(_, _)
FoldAt(i, k) ==
    LET v == leaf_model(ChildBefore(k)).data[i]
    IN  IF k = 1 THEN v
        ELSE IF last.before["K"].operation = "add" THEN FoldAt(i, k - 1) + v
        ELSE FoldAt(i, k - 1) * v

\* C8: the render of a combined node whose children share one bbox is the
\* elementwise sum ("add") or product ("multiply") of the children's local
\* renders, of shape bbox.shape, and projected into a frame it holds 0
\* outside the bbox.
C8_FoldIsSumOrProduct ==
    (RenderedK /\ SameBoxes) =>
        LET box == last.before["K"].bbox
        IN  /\ ~raised
            /\ IF last.frame = NoFrame
               THEN /\ out.shape = box.shape
                    /\ \A i \in IndexSet(out.shape) : out.data[i] = FoldAt(i, NumChildren)
               ELSE /\ out.shape = FrameShape(last.frame)
                    /\ \A p \in IndexSet(out.shape) :
                         out.data[p] =
                            IF InFootprint(p, box, 3)
                            THEN FoldAt(<<p[1] - box.origin[1], p[2] - box.origin[2],
                                          p[3] - box.origin[3]>>, NumChildren)
                            ELSE 0

\* C9: a render leaves the parameters, bbox, frame and cached slices of every
\* node as they were, and a second render of the same node into the same
\* frame returns the same array.
C9_RenderKeepsState ==
    last.op = "get_model" =>
        /\ \A n \in DOMAIN last.before : nodes[n] = last.before[n]
        /\ (last.again /\ ~raised) => out = last.previous

====
